---- MODULE Spec2Model ----
(***************************************************************************)
(* Model of the daily revenue report of amocrm.py: the scheduler loop,     *)
(* main(), daily_report_revenue(), get_leads_from_amocrm() and             *)
(* send_to_telegram().                                                     *)
(*                                                                         *)
(* Python values that come out of JSON are tagged records [type, v]; a     *)
(* deal is a function whose DOMAIN is the set of keys the JSON object has, *)
(* so dict.get is modelled with its default.  A dict is a sequence of      *)
(* [key, value] entries in insertion order, which is the order Python      *)
(* iterates it in.  Message texts are strings built by concatenation as    *)
(* the f-strings build them; the Russian literals are transliterated.      *)
(* Calendar dates are day numbers since the epoch.                         *)
(***************************************************************************)
EXTENDS Integers, Sequences, FiniteSets, TLC

\* ---------------------------------------------------------------- bounds
\* longest _embedded.leads list the CRM answers with
MaxDeals == 2
\* last calendar day the clock reaches
MaxDay == 2
\* longest _embedded.leads list in an answer whose status code is not 200
MaxErrorDeals == 1

\* ------------------------------------------------------------ JSON values
JInt(n) == [type |-> "int", v |-> n]
JNull == [type |-> "null", v |-> 0]
\* marks a key the JSON object does not have (used to enumerate deals only)
JMissing == [type |-> "missing", v |-> 0]

SecondsPerDay == 86400

\* a moment of day d, as unix seconds
TimestampOn(d) == d * SecondsPerDay + 3600

\* values of created_at, responsible_user_id and price in the CRM answers
CreatedAtValues == {JMissing, JInt(TimestampOn(1)), JInt(TimestampOn(2))}
ResponsibleUserIds == {JMissing, JInt(0), JInt(1), JInt(2)}
PriceValues == {JMissing, JNull, JInt(-5), JInt(10)}

MakeDeal(c, o, p) ==
    LET field == [k \in {"created_at", "responsible_user_id", "price"} |->
                    CASE k = "created_at" -> c
                      [] k = "responsible_user_id" -> o
                      [] OTHER -> p]
    IN  [k \in {x \in DOMAIN field : field[x].type # "missing"} |-> field[k]]

Deals == {MakeDeal(c, o, p) : c \in CreatedAtValues, o \in ResponsibleUserIds,
                              p \in PriceValues}

SeqsUpTo(S, n) == UNION {[1..k -> S] : k \in 0..n}

\* response bodies: what response.json()['_embedded']['leads'] meets
Bodies == {[kind |-> k, leads |-> <<>>] :
              k \in {"not_json", "no_embedded", "top_list", "leads_null"}}
          \cup {[kind |-> "leads", leads |-> l] : l \in SeqsUpTo(Deals, MaxDeals)}

StatusCodes == {200, 500}

\* what get_leads_from_amocrm returns: a requests.Response, or None
Responses ==
    {r \in [class : {"Response"}, status_code : StatusCodes, body : Bodies] :
        r.status_code # 200 => Len(r.body.leads) <= MaxErrorDeals}
NoData == [class |-> "NoneType", status_code |-> 0,
           body |-> [kind |-> "none", leads |-> <<>>]]

\* the except clauses of get_leads_from_amocrm
RequestExceptions == {"HTTPError", "ConnectionError", "Timeout", "RequestException"}

\* what bot.send_message raises, by except clause of send_to_telegram
TelegramFailures == {"BadRequest", "Unauthorized", "ChatNotFound",
                     "TelegramAPIError", "Exception"}

\* ------------------------------------------------------------ Python bits
\* dict.get(key, default)
dict_get(d, key, default) == IF key \in DOMAIN d THEN d[key] ELSE default

\* isinstance(x, dict)
IsDict(x) == x.class = "dict"

\* truth value of a Python object: None and 0 are false
Truthy(x) ==
    CASE x.type = "int" -> x.v # 0
      [] x.type = "null" -> FALSE
      [] OTHER -> TRUE

\* datetime.datetime.fromtimestamp(ts).date(), as a day number
fromtimestamp_date(ts) == ts \div SecondsPerDay

\* str(datetime.date): YYYY-MM-DD, for the days of January 1970
IsoDate(d) == "1970-01-" \o (IF d + 1 < 10 THEN "0" ELSE "") \o ToString(d + 1)

\* insertion-ordered dict as a sequence of entries
DictKeys(d) == {d[j].key : j \in 1..Len(d)}
DictIndex(d, k) == CHOOSE j \in 1..Len(d) : d[j].key = k
DictValue(d, k) == d[DictIndex(d, k)].value
DictSet(d, k, val) ==
    IF k \in DictKeys(d)
    THEN [d EXCEPT ![DictIndex(d, k)] = [key |-> k, value |-> val]]
    ELSE Append(d, [key |-> k, value |-> val])

\* ------------------------------------------------ daily_report_revenue loop
\* the loop body without the comparison of created_date with current_date
LoopBody_NoDateFilter(rev, deal, current_date) ==
    LET created_at == dict_get(deal, "created_at", JNull)
        responsible_user_id == dict_get(deal, "responsible_user_id", JNull)
        price == dict_get(deal, "price", JInt(0))
    IN  IF Truthy(created_at) /\ Truthy(responsible_user_id)
        THEN IF created_at.type # "int" \/ price.type # "int"
             THEN [exc |-> "TypeError", rev |-> rev]
             ELSE LET k == responsible_user_id.v
                      r0 == IF k \notin DictKeys(rev) THEN DictSet(rev, k, 0)
                                                       ELSE rev
                  IN  [exc |-> "none",
                       rev |-> DictSet(r0, k, DictValue(r0, k) + price.v)]
        ELSE [exc |-> "none", rev |-> rev]

\* the loop body with "=" in the place of "+=": the last price wins
LoopBody_Overwrite(rev, deal, current_date) ==
    LET created_at == dict_get(deal, "created_at", JNull)
        responsible_user_id == dict_get(deal, "responsible_user_id", JNull)
        price == dict_get(deal, "price", JInt(0))
    IN  IF Truthy(created_at) /\ Truthy(responsible_user_id)
        THEN IF created_at.type # "int"
             THEN [exc |-> "TypeError", rev |-> rev]
             ELSE IF fromtimestamp_date(created_at.v) = current_date
                  THEN IF price.type # "int"
                       THEN [exc |-> "TypeError", rev |-> rev]
                       ELSE [exc |-> "none",
                             rev |-> DictSet(rev, responsible_user_id.v, price.v)]
                  ELSE [exc |-> "none", rev |-> rev]
        ELSE [exc |-> "none", rev |-> rev]

\* the loop body without "if created_at and responsible_user_id"
LoopBody_NoPresenceTest(rev, deal, current_date) ==
    LET created_at == dict_get(deal, "created_at", JNull)
        responsible_user_id == dict_get(deal, "responsible_user_id", JNull)
        price == dict_get(deal, "price", JInt(0))
    IN  IF created_at.type # "int"
        THEN [exc |-> "TypeError", rev |-> rev]
        ELSE IF fromtimestamp_date(created_at.v) = current_date
             THEN LET k == responsible_user_id.v
                      r0 == IF k \notin DictKeys(rev) THEN DictSet(rev, k, 0)
                                                       ELSE rev
                  IN  IF price.type # "int"
                      THEN [exc |-> "TypeError", rev |-> r0]
                      ELSE [exc |-> "none",
                            rev |-> DictSet(r0, k, DictValue(r0, k) + price.v)]
             ELSE [exc |-> "none", rev |-> rev]

\* one iteration of "for deal in deals" over the dict revenue_by_manager,
\* with current_date the value datetime.date.today() returns in it
LoopBody(rev, deal, current_date) ==
    LET created_at == dict_get(deal, "created_at", JNull)
        responsible_user_id == dict_get(deal, "responsible_user_id", JNull)
        price == dict_get(deal, "price", JInt(0))
    IN  IF Truthy(created_at) /\ Truthy(responsible_user_id)
        THEN IF created_at.type # "int"
             THEN [exc |-> "TypeError", rev |-> rev]
             ELSE IF fromtimestamp_date(created_at.v) = current_date
                  THEN LET k == responsible_user_id.v
                           r0 == IF k \notin DictKeys(rev) THEN DictSet(rev, k, 0)
                                                            ELSE rev
                       IN  IF price.type # "int"
                           THEN [exc |-> "TypeError", rev |-> r0]
                           ELSE [exc |-> "none",
                                 rev |-> DictSet(r0, k, DictValue(r0, k) + price.v)]
                  ELSE [exc |-> "none", rev |-> rev]
        ELSE [exc |-> "none", rev |-> rev]

\* ------------------------------------------------------------ message texts
error_message == "Ne udalos poluchit dannye po vyruchke."
main_failed_message == "Ne udalos vypolnit glavnuyu funktsiyu."

ReportHeader(d) == "Otchet po vyruchke na " \o IsoDate(d) \o ":\n\n"
ReportLine(manager_id, total_revenue) ==
    "Menedzher ID: " \o ToString(manager_id) \o ", Vyruchka: "
        \o ToString(total_revenue) \o "\n"

RECURSIVE ReportLines(_)
ReportLines(rev) ==
    IF rev = <<>> THEN ""
    ELSE ReportLine(rev[1].key, rev[1].value) \o ReportLines(Tail(rev))

\* the message main() builds for a non-empty revenue
ReportMessage(rev, d) == ReportHeader(d) \o ReportLines(rev)

\* ------------------------------------------------------------------ state
VARIABLES
    pc,                 \* position of the process
    today,              \* the date the clock showed when it was last read
    next_run,           \* day the scheduled job is next due
    data,               \* daily_report_revenue: data
    deals,              \* daily_report_revenue: deals
    i,                  \* daily_report_revenue: position of the for loop
    revenue_by_manager, \* daily_report_revenue: revenue_by_manager
    revenue,            \* main: revenue
    in_except,          \* main: inside the except block
    sent,               \* messages send_to_telegram was called with
    delivered,          \* messages bot.send_message accepted
    bot_calls,          \* number of bot.send_message calls
    send_result,        \* outcome of the last bot.send_message
    errlog,             \* logging.error lines of this invocation
    get_calls,          \* number of requests.get calls
    fetch,              \* what requests.get did
    status,             \* status code of the response received
    path,               \* how daily_report_revenue ended
    clock_at,           \* the date of the clock in each loop iteration
    filter_dates,       \* the dates line 175 read
    failure_notice      \* the first message of the latest invocation whose
                        \* fetch failed, "" before there is one

vars == <<pc, today, next_run, data, deals, i, revenue_by_manager, revenue,
          in_except, sent, delivered, bot_calls, send_result, errlog,
          get_calls, fetch, status, path, clock_at, filter_dates, failure_notice>>

clockVars == <<today, next_run>>
localVars == <<data, deals, i, revenue_by_manager, clock_at>>
sendVars == <<in_except, sent, delivered, bot_calls, send_result>>

NoLocals ==
    /\ data = NoData
    /\ deals = <<>>
    /\ i = 1
    /\ revenue_by_manager = <<>>
    /\ clock_at = <<>>

NoInvocation ==
    /\ NoLocals
    /\ revenue = <<>>
    /\ in_except = FALSE
    /\ sent = <<>>
    /\ delivered = <<>>
    /\ bot_calls = 0
    /\ send_result = "none"
    /\ errlog = {}
    /\ get_calls = 0
    /\ fetch = "none"
    /\ status = 0
    /\ path = "none"
    /\ filter_dates = {}

Init ==
    /\ pc = "idle"
    /\ today = 1
    /\ next_run = 1
    /\ NoInvocation
    /\ failure_notice = ""

\* what a read of the clock may return: the date of the previous read, or a
\* later one when midnight has passed since
ClockReads == today..MaxDay

\* the locals of daily_report_revenue go away when it returns or raises
DropLocals ==
    /\ data' = NoData
    /\ deals' = <<>>
    /\ i' = 1
    /\ revenue_by_manager' = <<>>
    /\ clock_at' = <<>>

\* daily_report_revenue returns {} after logging an error
ReturnEmpty(line, how) ==
    /\ errlog' = errlog \cup {line}
    /\ path' = how
    /\ revenue' = <<>>
    /\ DropLocals
    /\ pc' = "branch"

\* the places of daily_report_revenue an exception leaves it from:
\* data.json() (JSONDecodeError), "for deal in deals" over None (TypeError)
\* and "+= price" with a price that is None (TypeError)
Raised == {"raised_json", "raised_for", "raised_price"}

\* an exception leaves daily_report_revenue at the place how; main's try
\* catches it
RaiseToMain(how) ==
    /\ path' = how
    /\ DropLocals
    /\ pc' = "except"

\* ------------------------------------------------------- the scheduler loop
\* the loop polls every minute: schedule.run_pending() finds the job due on
\* the day it is scheduled for (or at once, when that day has passed) and
\* calls main()
RunPending ==
    /\ pc = "idle"
    /\ \E d \in ClockReads :
         /\ d = (IF today >= next_run THEN today ELSE next_run)
         /\ today' = d
    /\ pc' = "load_amocrm"
    /\ UNCHANGED <<next_run, localVars, revenue, sendVars, errlog, get_calls,
                   fetch, status, path, filter_dates, failure_notice>>

\* ----------------------------------------------------- daily_report_revenue
LoadAmocrm ==
    /\ pc = "load_amocrm"
    /\ \E ok \in BOOLEAN :
         IF ok
         THEN /\ pc' = "get_leads"
              /\ UNCHANGED <<localVars, revenue, errlog, path>>
         ELSE ReturnEmpty("Error loading AmoCRM configuration", "config_error")
    /\ UNCHANGED <<clockVars, sendVars, get_calls, fetch, status, filter_dates, failure_notice>>

\* daily_report_revenue from "if data is None" to the start of the for loop,
\* with d the value get_leads_from_amocrm returned
ProcessData(d) ==
    IF d = NoData
    THEN ReturnEmpty("No data returned from get_leads_from_amocrm", "no_data")
    ELSE IF IsDict(d) /\ d.status_code # 200
    THEN ReturnEmpty("Error fetching deals", "bad_status")
    ELSE CASE d.body.kind \in {"no_embedded", "top_list"} ->
                \* KeyError, TypeError: caught
                ReturnEmpty("Error processing deals data", "parse_error")
           [] d.body.kind = "not_json" ->
                \* JSONDecodeError is a ValueError: not caught
                /\ RaiseToMain("raised_json")
                /\ UNCHANGED <<revenue, errlog>>
           [] d.body.kind = "leads_null" ->
                \* deals is None: the for statement raises TypeError
                /\ RaiseToMain("raised_for")
                /\ UNCHANGED <<revenue, errlog>>
           [] OTHER ->
                /\ data' = d
                /\ deals' = d.body.leads
                /\ revenue_by_manager' = <<>>
                /\ i' = 1
                /\ clock_at' = <<>>
                /\ pc' = IF d.body.leads = <<>> THEN "return" ELSE "loop"
                /\ UNCHANGED <<revenue, errlog, path>>

\* get_leads_from_amocrm with a second requests.get after a failed first one
GetLeadsFails_Retry ==
    /\ pc = "get_leads"
    /\ \E e \in RequestExceptions : fetch' = e
    /\ get_calls' = get_calls + 1
    /\ IF get_calls = 0
       THEN /\ pc' = "get_leads"
            /\ UNCHANGED <<localVars, revenue, errlog, path>>
       ELSE ProcessData(NoData)
    /\ UNCHANGED <<clockVars, sendVars, status, filter_dates, failure_notice>>

\* requests.get raises one of the exceptions get_leads_from_amocrm catches:
\* it logs and returns None
GetLeadsFails ==
    /\ pc = "get_leads"
    /\ \E e \in RequestExceptions : fetch' = e
    /\ get_calls' = get_calls + 1
    /\ ProcessData(NoData)
    /\ UNCHANGED <<clockVars, sendVars, status, filter_dates, failure_notice>>

\* any other exception leaves get_leads_from_amocrm
GetLeadsRaises ==
    /\ pc = "get_leads"
    /\ fetch' = "Exception"
    /\ get_calls' = get_calls + 1
    /\ ReturnEmpty("Error getting leads from AmoCRM", "fetch_exception")
    /\ UNCHANGED <<clockVars, sendVars, status, filter_dates, failure_notice>>

\* requests.get returns a response
GetLeadsResponds ==
    /\ pc = "get_leads"
    /\ \E r \in Responses :
         /\ status' = r.status_code
         /\ ProcessData(r)
    /\ fetch' = "response"
    /\ get_calls' = get_calls + 1
    /\ UNCHANGED <<clockVars, sendVars, filter_dates, failure_notice>>

\* requests.get, called without a timeout, waits for an answer that never
\* comes: the call does not return, and nothing else runs in the process
GetLeadsStalls ==
    /\ pc = "get_leads"
    /\ fetch' = "stalled"
    /\ get_calls' = get_calls + 1
    /\ pc' = "get_blocked"
    /\ UNCHANGED <<clockVars, localVars, revenue, sendVars, errlog, status,
                   path, filter_dates, failure_notice>>

\* whether the iteration over deal reaches datetime.date.today()
ReadsClock(deal) ==
    LET created_at == dict_get(deal, "created_at", JNull)
        responsible_user_id == dict_get(deal, "responsible_user_id", JNull)
    IN  Truthy(created_at) /\ Truthy(responsible_user_id)
           /\ created_at.type = "int"

\* one iteration of the for loop, which reads the clock if it gets to
\* datetime.date.today(); after the last one the function is at its return
LoopStep ==
    /\ pc = "loop"
    /\ \E current_date \in ClockReads :
         /\ ~ReadsClock(deals[i]) => current_date = today
         /\ today' = current_date
         /\ filter_dates' = IF ReadsClock(deals[i])
                            THEN filter_dates \cup {current_date}
                            ELSE filter_dates
         /\ LET r == LoopBody(revenue_by_manager, deals[i], current_date)
            IN  IF r.exc # "none"
                THEN RaiseToMain("raised_price")
                ELSE /\ revenue_by_manager' = r.rev
                     /\ i' = i + 1
                     /\ clock_at' = Append(clock_at, current_date)
                     /\ pc' = IF i = Len(deals) THEN "return" ELSE "loop"
                     /\ UNCHANGED <<data, deals, path>>
    /\ UNCHANGED <<next_run, revenue, sendVars, errlog, get_calls, fetch, status,
                   failure_notice>>

\* return revenue_by_manager
ReturnRevenue ==
    /\ pc = "return"
    /\ revenue' = revenue_by_manager
    /\ path' = "returned"
    /\ DropLocals
    /\ pc' = "branch"
    /\ UNCHANGED <<clockVars, sendVars, errlog, get_calls, fetch, status,
                   filter_dates, failure_notice>>

\* --------------------------------------------------------------------- main
\* the message of main with the text of the except block for an empty revenue
MainMessage_FailedText(rev, d) ==
    IF rev # <<>> THEN ReportMessage(rev, d) ELSE main_failed_message

\* the message main builds from revenue: the report, or error_message
MainMessage(rev, d) == IF rev # <<>> THEN ReportMessage(rev, d) ELSE error_message

\* if revenue: ... else: ...  up to the call of send_to_telegram; the report
\* header reads the clock
Branch ==
    /\ pc = "branch"
    /\ \E d \in ClockReads :
         /\ revenue = <<>> => d = today
         /\ today' = d
         /\ sent' = Append(sent, MainMessage(revenue, d))
         /\ failure_notice' = IF fetch \in RequestExceptions
                              THEN MainMessage(revenue, d)
                              ELSE failure_notice
    /\ pc' = "send_config"
    /\ UNCHANGED <<next_run, localVars, revenue, in_except, delivered,
                   bot_calls, send_result, errlog, get_calls, fetch, status,
                   path, filter_dates>>

\* an except block that logs the exception and sends nothing
Except_Silent ==
    /\ pc = "except"
    /\ errlog' = errlog \cup {"Error in main execution"}
    /\ in_except' = TRUE
    /\ pc' = "main_done"
    /\ UNCHANGED <<clockVars, localVars, revenue, sent, delivered, bot_calls,
                   send_result, get_calls, fetch, status, path, filter_dates,
                   failure_notice>>

\* except Exception as e: log it and call send_to_telegram
Except ==
    /\ pc = "except"
    /\ errlog' = errlog \cup {"Error in main execution"}
    /\ in_except' = TRUE
    /\ sent' = Append(sent, main_failed_message)
    /\ pc' = "send_config"
    /\ UNCHANGED <<clockVars, localVars, revenue, delivered, bot_calls,
                   send_result, get_calls, fetch, status, path, filter_dates, failure_notice>>

\* --------------------------------------------------------- send_to_telegram
\* an exception leaves send_to_telegram: inside main's try it reaches the
\* except block, inside the except block it leaves main and run_pending
RaiseFromSend == pc' = IF in_except THEN "crashed" ELSE "except"

\* load_config() and Bot(token=...), which are outside the try
SendConfig ==
    /\ pc = "send_config"
    /\ \E r \in {"ok", "load_config raises", "Bot raises"} :
         IF r = "ok" THEN pc' = "send_message" ELSE RaiseFromSend
    /\ UNCHANGED <<clockVars, localVars, revenue, sendVars, errlog, get_calls,
                   fetch, status, path, filter_dates, failure_notice>>

\* send_to_telegram with a handler that logs the failure and raises it again
SendMessage_Reraise ==
    /\ pc = "send_message"
    /\ bot_calls' = bot_calls + 1
    /\ \E r \in {"ok"} \cup TelegramFailures :
         /\ send_result' = r
         /\ delivered' = IF r = "ok" THEN Append(delivered, sent[Len(sent)])
                                      ELSE delivered
         /\ errlog' = IF r = "ok" THEN errlog ELSE errlog \cup {r}
         /\ IF r = "ok" THEN pc' = "main_done" ELSE RaiseFromSend
    /\ UNCHANGED <<clockVars, localVars, revenue, in_except, sent, get_calls,
                   fetch, status, path, filter_dates, failure_notice>>

\* await bot.send_message(...) inside the try, and the return to main, which
\* logs and ends
SendMessage ==
    /\ pc = "send_message"
    /\ bot_calls' = bot_calls + 1
    /\ \E r \in {"ok"} \cup TelegramFailures :
         /\ send_result' = r
         /\ delivered' = IF r = "ok" THEN Append(delivered, sent[Len(sent)])
                                      ELSE delivered
         /\ errlog' = (IF r = "ok" THEN errlog ELSE errlog \cup {r})
                         \cup (IF ~in_except /\ revenue = <<>>
                               THEN {error_message} ELSE {})
    /\ pc' = "main_done"
    /\ UNCHANGED <<clockVars, localVars, revenue, in_except, sent, get_calls,
                   fetch, status, path, filter_dates, failure_notice>>

\* main returns to run_pending, which schedules the job for the next day
MainReturns ==
    /\ pc = "main_done"
    /\ \E d \in ClockReads :
         /\ today' = d
         /\ next_run' = d + 1
    /\ pc' = "idle"
    /\ DropLocals
    /\ revenue' = <<>>
    /\ in_except' = FALSE
    /\ sent' = <<>>
    /\ delivered' = <<>>
    /\ bot_calls' = 0
    /\ send_result' = "none"
    /\ errlog' = {}
    /\ get_calls' = 0
    /\ fetch' = "none"
    /\ status' = 0
    /\ path' = "none"
    /\ filter_dates' = {}
    /\ UNCHANGED failure_notice

Next ==
    \/ RunPending
    \/ LoadAmocrm
    \/ GetLeadsFails
    \/ GetLeadsRaises
    \/ GetLeadsResponds
    \/ GetLeadsStalls
    \/ LoopStep
    \/ ReturnRevenue
    \/ Branch
    \/ Except
    \/ SendConfig
    \/ SendMessage
    \/ MainReturns

Spec == Init /\ [][Next]_vars

\* the while loop of the process never stops while it has a step to take
LiveSpec == Spec /\ WF_vars(Next)

\* ------------------------------------------------------------------ claims
\* one invocation of main() is over: it returned, or an exception left it
MainEnded == pc \in {"main_done", "crashed"}

\* C1: every invocation of main() calls send_to_telegram exactly once,
\* whatever the outcomes of its steps are.
C1_ExactlyOneSend == MainEnded => Len(sent) = 1

\* C2: no exception leaves an invocation of main(), so run_pending() never
\* raises and the scheduler loop goes on.
C2_NoExceptionLeavesMain == pc # "crashed"

\* C3: when requests.get fails with one of the exceptions
\* get_leads_from_amocrm catches, daily_report_revenue returns the empty
\* mapping and main() sends exactly one generic failure notice and no report.
C3_FetchFailureOneNotice ==
    (MainEnded /\ fetch \in RequestExceptions) =>
        /\ path = "no_data"
        /\ revenue = <<>>
        /\ Len(sent) = 1
        /\ sent[1] \in {error_message, main_failed_message}

\* C4: a response whose status code is not 200 makes daily_report_revenue
\* return the empty mapping without aggregating the leads, whatever the
\* body is, and main() sends no report.
C4_Non200NotAggregated ==
    (fetch = "response" /\ status # 200) =>
        /\ revenue_by_manager = <<>>
        /\ revenue = <<>>
        /\ \A n \in 1..Len(sent) :
              sent[n] \in {error_message, main_failed_message}

\* the fetch succeeded, no deal of the list qualified, and main has built
\* its first message
NoDealsNotice ==
    /\ fetch = "response"
    /\ path = "returned"
    /\ revenue = <<>>
    /\ sent # <<>>

\* C5 as stated: the notice main() sends when the fetch succeeds without a
\* deal of today differs in text from the notice it sent when the fetch
\* failed.
C5_NoDataNoticeDistinct ==
    (NoDealsNotice /\ failure_notice # "") => sent[1] # failure_notice

\* C5 as amended: in both cases the first message main() passes to
\* send_to_telegram is the one text of line 208, so the message does not
\* tell the two cases apart.
C5_NoDataNoticeSameText ==
    /\ failure_notice \in {"", "Ne udalos poluchit dannye po vyruchke."}
    /\ NoDealsNotice => sent[1] = "Ne udalos poluchit dannye po vyruchke."

C5_Witness == NoDealsNotice /\ failure_notice # ""

\* the calendar date of a deal's created_at, 0 when it has none
CreatedDate(deal) ==
    LET created_at == dict_get(deal, "created_at", JNull)
    IN  IF created_at.type = "int" THEN fromtimestamp_date(created_at.v) ELSE 0

\* the positions of the deals of owner id o created on the date the clock
\* showed when the loop was at them
DealsOfToday(o) ==
    {j \in 1..Len(clock_at) :
        /\ "responsible_user_id" \in DOMAIN deals[j]
        /\ deals[j]["responsible_user_id"] = JInt(o)
        /\ "created_at" \in DOMAIN deals[j]
        /\ CreatedDate(deals[j]) = clock_at[j]}

\* the price of the deal at position j, a missing price counted as 0
Amount(j) ==
    LET price == dict_get(deals[j], "price", JInt(0))
    IN  IF price.type = "int" THEN price.v ELSE 0

RECURSIVE SumAmounts(_)
SumAmounts(S) ==
    IF S = {} THEN 0
    ELSE LET j == CHOOSE x \in S : TRUE IN Amount(j) + SumAmounts(S \ {j})

OwnerIds == {o.v : o \in {x \in ResponsibleUserIds : x.type = "int"}}

\* C6: the mapping daily_report_revenue returns holds, for every owner id
\* with a deal created on the evaluation date, the id 0 included, the sum of
\* the prices of those deals, and holds no other owner.
C6_TotalsPerOwner ==
    pc = "return" =>
        \A o \in OwnerIds :
            IF DealsOfToday(o) # {}
            THEN /\ o \in DictKeys(revenue_by_manager)
                 /\ DictValue(revenue_by_manager, o) = SumAmounts(DealsOfToday(o))
            ELSE o \notin DictKeys(revenue_by_manager)

\* C7: a deal contributes only if its creation date equals the date read
\* for it: every key of the mapping comes from such a deal, and a list
\* without such a deal gives the empty mapping, without any key.
C7_OnlyDealsOfToday ==
    pc \in {"loop", "return"} =>
        /\ \A k \in DictKeys(revenue_by_manager) : DealsOfToday(k) # {}
        /\ (\A j \in 1..Len(clock_at) : CreatedDate(deals[j]) # clock_at[j])
              => revenue_by_manager = <<>>

C7_Witness ==
    /\ pc = "return"
    /\ Len(deals) >= 2
    /\ \A j \in 1..Len(deals) :
          /\ ReadsClock(deals[j])
          /\ CreatedDate(deals[j]) # clock_at[j]
    /\ revenue_by_manager = <<>>

\* the whole for loop over ds, dates[j] being the date read for ds[j]
RECURSIVE Aggregate(_, _, _)
Aggregate(rev, ds, dates) ==
    IF ds = <<>> THEN [exc |-> "none", rev |-> rev]
    ELSE LET r == LoopBody(rev, Head(ds), Head(dates))
         IN  IF r.exc # "none" THEN r
             ELSE Aggregate(r.rev, Tail(ds), Tail(dates))

\* a dict as the mapping it is, without its insertion order
AsMapping(rev) == [k \in DictKeys(rev) |-> DictValue(rev, k)]

\* the reorderings of the lists of each length
Reorderings == [n \in 0..MaxDeals |-> Permutations(1..n)]

\* C8: the mapping is the same for every reordering of the deal list, each
\* deal being compared with the date that was read for it.
C8_OrderIndependent ==
    pc = "return" =>
        LET n == Len(deals)
            returned == AsMapping(revenue_by_manager)
        IN  \A p \in Reorderings[n] :
                LET r == Aggregate(<<>>, [j \in 1..n |-> deals[p[j]]],
                                   [j \in 1..n |-> clock_at[p[j]]])
                IN  /\ r.exc = "none"
                    /\ AsMapping(r.rev) = returned

C8_Witness ==
    /\ pc = "return"
    /\ Len(deals) = 2
    /\ deals[1] # deals[2]
    /\ \E o \in OwnerIds : DealsOfToday(o) = {1, 2}
    /\ Amount(1) # Amount(2)

\* C9: when bot.send_message fails in any of the five ways, send_to_telegram
\* logs it and returns, and main() ends without raising after that one
\* attempt, without another GET.
C9_SendFailureEndsMain ==
    send_result \in TelegramFailures =>
        /\ pc = "main_done"
        /\ send_result \in errlog
        /\ bot_calls = 1
        /\ get_calls <= 1

C9_Witness ==
    /\ send_result = "ChatNotFound"
    /\ pc = "main_done"
    /\ get_calls = 1

\* C10: when daily_report_revenue returns a non-empty mapping, main() calls
\* send_to_telegram exactly once, with the header of the current date and
\* one line per owner of the mapping, and sends no failure notice.
C10_OneReportOnly ==
    (MainEnded /\ path = "returned" /\ revenue # <<>>) =>
        /\ Len(sent) = 1
        /\ sent[1] = ReportHeader(today) \o ReportLines(revenue)
        /\ \A n \in 1..Len(sent) :
              sent[n] \notin {error_message, main_failed_message}

\* the entries of a dict in ascending order of their keys
RECURSIVE SortedByKey(_)
SortedByKey(rev) ==
    IF rev = <<>> THEN <<>>
    ELSE LET m == CHOOSE j \in 1..Len(rev) :
                      \A k \in 1..Len(rev) : rev[j].key <= rev[k].key
             rest == [j \in 1..(Len(rev) - 1) |->
                         IF j < m THEN rev[j] ELSE rev[j + 1]]
         IN  <<rev[m]>> \o SortedByKey(rest)

\* C11: the lines of the report main() builds are in ascending order of
\* owner id, whatever the order of the owners' deals in the CRM answer was.
C11_LinesSortedByOwner ==
    (path = "returned" /\ revenue # <<>> /\ sent # <<>>) =>
        sent[1] = ReportHeader(today) \o ReportLines(SortedByKey(revenue))

\* C12: every amount a deal adds to its owner's total is >= 0: a negative
\* or null price counts as 0 without stopping the loop, so that no total of
\* the mapping is negative.
C12_AmountsNeverNegative ==
    /\ \A j \in 1..Len(revenue_by_manager) : revenue_by_manager[j].value >= 0
    /\ \A j \in 1..Len(revenue) : revenue[j].value >= 0
    /\ path # "raised_price"

\* C13: a body that does not parse into the _embedded.leads list (not JSON,
\* no _embedded or leads key, a top-level list, leads null) makes
\* daily_report_revenue log, return the empty mapping and not raise.
C13_MalformedBodyReturnsEmpty ==
    /\ path \notin {"raised_json", "raised_for"}
    /\ path = "parse_error" => revenue = <<>>

\* the deal has no created_at key or no responsible_user_id key
LacksField(deal) ==
    "created_at" \notin DOMAIN deal \/ "responsible_user_id" \notin DOMAIN deal

\* the positions, among the first n of the list, of the deals that have both
WithBothFields(n) ==
    SelectSeq([j \in 1..n |-> j], LAMBDA j : ~LacksField(deals[j]))

\* C14: a deal without a creation timestamp or without an owner id is
\* skipped: its iteration does not raise and leaves the mapping as it is,
\* and the mapping is the one the loop builds from the list without the
\* skipped deals.
C14_SkippedAsIfAbsent ==
    pc \in {"loop", "return"} =>
        LET keep == WithBothFields(Len(clock_at))
            r == Aggregate(<<>>, [j \in 1..Len(keep) |-> deals[keep[j]]],
                           [j \in 1..Len(keep) |-> clock_at[keep[j]]])
        IN  /\ r.exc = "none"
            /\ r.rev = revenue_by_manager
            /\ (pc = "loop" /\ LacksField(deals[i])) =>
                  \A d \in ClockReads :
                      LoopBody(revenue_by_manager, deals[i], d)
                          = [exc |-> "none", rev |-> revenue_by_manager]

C14_Witness ==
    /\ pc = "return"
    /\ Len(deals) = 2
    /\ LacksField(deals[1])
    /\ dict_get(deals[1], "price", JInt(0)) = JNull
    /\ ~LacksField(deals[2])
    /\ revenue_by_manager # <<>>

\* C15: an exception that leaves daily_report_revenue is caught by main(),
\* which logs it and calls send_to_telegram once, with the generic failure
\* text; no report is sent in that invocation.
C15_RaiseBecomesOneNotice ==
    (MainEnded /\ path \in Raised) =>
        /\ "Error in main execution" \in errlog
        /\ sent = <<main_failed_message>>

C15_Witness ==
    /\ pc = "main_done"
    /\ path = "raised_price"
    /\ delivered = <<main_failed_message>>

\* C16: an invocation whose CRM GET never gets an answer still ends, and the
\* scheduler loop comes back to polling for the next tick.
C16_StallDoesNotWedge == (fetch = "stalled") ~> (pc = "idle")

\* C17: a missing credential stops the process before the job is
\* registered: no invocation of main() finds the AmoCRM credentials absent
\* and goes on to call send_to_telegram.
C17_NoSendWithoutCredential == path = "config_error" => sent = <<>>

\* C18: one invocation of main() calls requests.get at most once, and does
\* not come back to the GET once it has been made, whatever failed.
C18_AtMostOneGet ==
    /\ get_calls <= 1
    /\ fetch # "none" => (get_calls = 1 /\ pc \notin {"load_amocrm", "get_leads"})

C18_Witness ==
    /\ MainEnded
    /\ fetch \in RequestExceptions
    /\ in_except
    /\ get_calls = 1

\* C19: one invocation uses one evaluation date: every deal is compared
\* with the same date, and the header of the report names that date.
C19_SingleEvaluationDate ==
    /\ Cardinality(filter_dates) <= 1
    /\ (path = "returned" /\ revenue # <<>> /\ sent # <<>>) =>
          /\ filter_dates = {today}
          /\ sent[1] = ReportMessage(revenue, today)

====
